---- MODULE Spec2Model ----
(***************************************************************************)
(* tdx-seal-rs (packages/tdx-seal-rs/src/main.rs): the run of main as a    *)
(* state machine, and the pure functions it calls as operators.            *)
(*                                                                         *)
(* A byte is a number in 0..255, a [u8; 32] a sequence of 32 bytes.  A u64 *)
(* flag word is the set of the positions (0..63) of its 1 bits: the code   *)
(* only ever masks the two words, and 64-bit values do not fit TLC's       *)
(* integers.  A 32-bit word of SHA-256 is a pair <<high 16 bits, low 16    *)
(* bits>> for the same reason.  Text is a string, a stream a sequence of   *)
(* lines.                                                                  *)
(***************************************************************************)
EXTENDS Integers, Sequences, FiniteSets, TLC

VARIABLES
  verbose,          \* args.verbose
  format,           \* args.format
  platform,         \* "unix" (cfg(unix)) or "other" (cfg(not(unix)))
  euid,             \* what geteuid() returns
  tdx_guest,        \* whether the build has the feature "tdx-guest"
  pc,               \* the position of main
  td_info,          \* main's td_info: a TdInfo, or NoTdInfo before line 216
  probe,            \* what get_tdx_info() returned: "none" (not called), "ok", "err"
  mrenclave,        \* main's mrenclave, <<>> before it is bound
  sealing_key,      \* main's sealing_key
  private_key,      \* main's private_key
  mrenclave_mut,    \* main's mrenclave_mut
  sealing_key_mut,  \* main's sealing_key_mut
  private_key_mut,  \* main's private_key_mut
  stdout,           \* the lines written to standard output
  stderr,           \* the lines written to the error stream
  exit_code,        \* the process's exit status, -1 while it runs
  trace,            \* the stages main has executed, in order (history)
  call              \* the arguments of the last direct call of print_hex (history)

vars ==
  <<verbose, format, platform, euid, tdx_guest, pc, td_info, probe, mrenclave,
    sealing_key, private_key, mrenclave_mut, sealing_key_mut, private_key_mut,
    stdout, stderr, exit_code, trace, call>>

---------------------------------------------------------------------------
(* Bounds of the model *)

\* how many of OtherBitList's bit positions the probed flag words range over
MaxOtherBits == 2

\* how many of BaseList's first bytes the function inputs range over
NumBases == 4

\* how many of StepList's byte-to-byte steps the function inputs range over
NumSteps == 3

\* print_hex is applied to the prefixes of length 0..MaxShortLen and to whole buffers
MaxShortLen == 3

---------------------------------------------------------------------------
(* Constants of the program *)

KEY_LEN == 32

MEASUREMENT_ADD == 171

SEALING_ADD == 205

TDX_FEATURES0_SEALING_BIT == {0}

TDX_ATTRIBUTES_MIGRATABLE_BIT == {0}

\* "TDX_SEALING_PRIVATE_KEY_DERIVATION".as_bytes()
DOMAIN_SEPARATOR ==
  << 84, 68, 88, 95, 83, 69, 65, 76,
     73, 78, 71, 95, 80, 82, 73, 86,
     65, 84, 69, 95, 75, 69, 89, 95,
     68, 69, 82, 73, 86, 65, 84, 73,
     79, 78 >>

---------------------------------------------------------------------------
\* F applied to the value of e: e is evaluated once, however often F uses it
Strict(e, F(_)) == CHOOSE r \in {F(x) : x \in {e}} : TRUE

---------------------------------------------------------------------------
(* Result<T>: Ok(val), having printed the lines out and eout, or Err(err) *)

Ok(v, o) == [ok |-> TRUE, val |-> v, err |-> "", out |-> o, eout |-> <<>>]

OkWarn(v, e) == [ok |-> TRUE, val |-> v, err |-> "", out |-> <<>>, eout |-> e]

Err(e) == [ok |-> FALSE, val |-> <<>>, err |-> e, out |-> <<>>, eout |-> <<>>]

---------------------------------------------------------------------------
(* u64 flag words *)

\* a & b
BitAnd(a, b) == a \cap b

\* the word 0
ZeroWord == {}

TdInfo(f, a) == [tdx_features0 |-> f, tdx_attributes |-> a]

NoTdInfo == [tdx_features0 |-> {-1}, tdx_attributes |-> {-1}]

---------------------------------------------------------------------------
(* SHA-256 (sha2::Sha256), on words <<high half, low half>> *)

K256 ==
  << <<17034, 12184>>, <<28983, 17553>>, <<46528, 64463>>, <<59829, 56229>>,
     <<14678, 49755>>, <<23025, 4593>>, <<37439, 33444>>, <<43804, 24277>>,
     <<55303, 43672>>, <<4739, 23297>>, <<9265, 34238>>, <<21772, 32195>>,
     <<29374, 23924>>, <<32990, 45566>>, <<39900, 1703>>, <<49563, 61812>>,
     <<58523, 27073>>, <<61374, 18310>>, <<4033, 40390>>, <<9228, 41420>>,
     <<11753, 11375>>, <<19060, 33962>>, <<23728, 43484>>, <<30457, 35034>>,
     <<38974, 20818>>, <<43057, 50797>>, <<45059, 10184>>, <<48985, 32711>>,
     <<50912, 3059>>, <<54695, 37191>>, <<1738, 25425>>, <<5161, 10599>>,
     <<10167, 2693>>, <<11803, 8504>>, <<19756, 28156>>, <<21304, 3347>>,
     <<25866, 29524>>, <<30314, 2747>>, <<33218, 51502>>, <<37490, 11397>>,
     <<41663, 59553>>, <<43034, 26187>>, <<49739, 35696>>, <<51052, 20899>>,
     <<53650, 59417>>, <<54937, 1572>>, <<62478, 13701>>, <<4202, 41072>>,
     <<6564, 49430>>, <<7735, 27656>>, <<10056, 30540>>, <<13488, 48309>>,
     <<14620, 3251>>, <<20184, 43594>>, <<23452, 51791>>, <<26670, 28659>>,
     <<29839, 33518>>, <<30885, 25455>>, <<33992, 30740>>, <<36039, 520>>,
     <<37054, 65530>>, <<42064, 27883>>, <<48889, 41975>>, <<50801, 30962>> >>

H256_INIT ==
  << <<27145, 58983>>, <<47975, 44677>>, <<15470, 62322>>, <<42319, 62778>>,
     <<20750, 21119>>, <<39685, 26764>>, <<8067, 55723>>, <<23520, 52505>> >>

Pow2(n) == 2 ^ n

\* the three bitwise functions of SHA-256 on 16-bit halves, one bit a step
RECURSIVE Xor3h(_, _, _)
Xor3h(a, b, c) ==
  IF a = 0 /\ b = 0 /\ c = 0 THEN 0
  ELSE (((a % 2) + (b % 2) + (c % 2)) % 2) + 2 * Xor3h(a \div 2, b \div 2, c \div 2)

RECURSIVE Chh(_, _, _)
Chh(e, f, g) ==
  IF e = 0 /\ g = 0 THEN 0
  ELSE (IF e % 2 = 1 THEN f % 2 ELSE g % 2) + 2 * Chh(e \div 2, f \div 2, g \div 2)

RECURSIVE Majh(_, _, _)
Majh(a, b, c) ==
  IF a + b + c = 0 THEN 0
  ELSE (IF (a % 2) + (b % 2) + (c % 2) >= 2 THEN 1 ELSE 0)
       + 2 * Majh(a \div 2, b \div 2, c \div 2)

\* the same functions on 4-bit digits, as tables
Xor3Table == [a \in 0..15 |-> [b \in 0..15 |-> [c \in 0..15 |-> Xor3h(a, b, c)]]]

ChTable == [e \in 0..15 |-> [f \in 0..15 |-> [g \in 0..15 |-> Chh(e, f, g)]]]

MajTable == [a \in 0..15 |-> [b \in 0..15 |-> [c \in 0..15 |-> Majh(a, b, c)]]]

\* a function of three 16-bit halves, computed digit by digit from its table
Digitwise(t, a, b, c) ==
  t[a % 16][b % 16][c % 16]
  + 16 * t[(a \div 16) % 16][(b \div 16) % 16][(c \div 16) % 16]
  + 256 * t[(a \div 256) % 16][(b \div 256) % 16][(c \div 256) % 16]
  + 4096 * t[a \div 4096][b \div 4096][c \div 4096]

\* a ^ b ^ c, (e & f) ^ (~e & g), (a & b) ^ (a & c) ^ (b & c)
Xor3(a, b, c) ==
  Strict(<<a, b, c>>,
         LAMBDA v : <<Digitwise(Xor3Table, v[1][1], v[2][1], v[3][1]),
                      Digitwise(Xor3Table, v[1][2], v[2][2], v[3][2])>>)

Ch(e, f, g) ==
  Strict(<<e, f, g>>,
         LAMBDA v : <<Digitwise(ChTable, v[1][1], v[2][1], v[3][1]),
                      Digitwise(ChTable, v[1][2], v[2][2], v[3][2])>>)

Maj(a, b, c) ==
  Strict(<<a, b, c>>,
         LAMBDA v : <<Digitwise(MajTable, v[1][1], v[2][1], v[3][1]),
                      Digitwise(MajTable, v[1][2], v[2][2], v[3][2])>>)

\* rotate right by n, 0 < n < 32, n # 16
Rotr(x, n) ==
  LET hi == IF n < 16 THEN x[1] ELSE x[2]
      lo == IF n < 16 THEN x[2] ELSE x[1]
      k == n % 16
      p == Pow2(k)
      q == Pow2(16 - k)
  IN <<(hi \div p) + (lo % p) * q, (lo \div p) + (hi % p) * q>>

\* shift right by n, 0 < n < 16
Shr(x, n) ==
  LET p == Pow2(n)
      q == Pow2(16 - n)
  IN <<x[1] \div p, (x[2] \div p) + (x[1] % p) * q>>

\* the sum of the halves k of the words ws[i], ws[i+1], ...
RECURSIVE SumHalves(_, _, _)
SumHalves(ws, k, i) == IF i > Len(ws) THEN 0 ELSE ws[i][k] + SumHalves(ws, k, i + 1)

\* the sum, modulo 2^32, of the words of ws
Add(ws) ==
  Strict(ws,
         LAMBDA v :
           Strict(SumHalves(v, 2, 1),
                  LAMBDA lo : <<(SumHalves(v, 1, 1) + (lo \div 65536)) % 65536, lo % 65536>>))

BigSigma0(x) == Xor3(Rotr(x, 2), Rotr(x, 13), Rotr(x, 22))

BigSigma1(x) == Xor3(Rotr(x, 6), Rotr(x, 11), Rotr(x, 25))

SmallSigma0(x) == Xor3(Rotr(x, 7), Rotr(x, 18), Shr(x, 3))

SmallSigma1(x) == Xor3(Rotr(x, 17), Rotr(x, 19), Shr(x, 10))

\* the message, 0x80, zeros to 56 modulo 64, the bit length in 8 bytes
Pad(msg) ==
  LET l == Len(msg)
      z == (119 - (l % 64)) % 64
      bits == 8 * l
  IN msg \o <<128>> \o [i \in 1..z |-> 0]
         \o [i \in 1..8 |-> IF i < 5 THEN 0 ELSE (bits \div Pow2(8 * (8 - i))) % 256]

\* the message schedule w, longer by n words (n >= 1); the recursion halves n
\* to keep the evaluation shallow
RECURSIVE Extend(_, _)
Extend(w, n) ==
  IF n = 1
    THEN Append(w, Add(<<w[Len(w) - 15], SmallSigma0(w[Len(w) - 14]), w[Len(w) - 6],
                         SmallSigma1(w[Len(w) - 1])>>))
    ELSE Strict(Extend(w, n \div 2), LAMBDA w1 : Extend(w1, n - (n \div 2)))

\* the 64-word message schedule, from its first 16 words
Schedule(w) == Extend(w, 48)

\* round i on the working variables s = <<a, b, c, d, e, f, g, h>>
Round(s, w, i) ==
  Strict(Add(<<s[8], BigSigma1(s[5]), Ch(s[5], s[6], s[7]), K256[i], w[i]>>),
         LAMBDA t1 :
           <<Add(<<t1, BigSigma0(s[1]), Maj(s[1], s[2], s[3])>>),
             s[1], s[2], s[3], Add(<<s[4], t1>>), s[5], s[6], s[7]>>)

\* rounds lo..hi
RECURSIVE Rounds(_, _, _, _)
Rounds(s, w, lo, hi) ==
  IF lo = hi
    THEN Round(s, w, lo)
    ELSE Strict(Rounds(s, w, lo, (lo + hi) \div 2),
                LAMBDA s1 : Rounds(s1, w, ((lo + hi) \div 2) + 1, hi))

Compress(h, block) ==
  Strict(<<h, Schedule([i \in 1..16 |-> <<block[4*i-3] * 256 + block[4*i-2],
                                          block[4*i-1] * 256 + block[4*i]>>])>>,
         LAMBDA v :
           Strict(Rounds(v[1], v[2], 1, 64),
                  LAMBDA s : [i \in 1..8 |-> Add(<<v[1][i], s[i]>>)]))

RECURSIVE Blocks(_, _)
Blocks(h, m) ==
  IF Len(m) = 0 THEN h
  ELSE Strict(<<Compress(h, SubSeq(m, 1, 64)), SubSeq(m, 65, Len(m))>>,
              LAMBDA v : Blocks(v[1], v[2]))

\* the 32-byte digest of msg
Sha256(msg) ==
  Strict(Pad(msg),
         LAMBDA m :
           Strict(Blocks(H256_INIT, m),
                  LAMBDA h :
                    [i \in 1..32 |->
                       LET wd == h[((i - 1) \div 4) + 1]
                           k == (i - 1) % 4
                       IN IF k = 0 THEN wd[1] \div 256 ELSE IF k = 1 THEN wd[1] % 256
                          ELSE IF k = 2 THEN wd[2] \div 256 ELSE wd[2] % 256]))

\* Sha256::new(), hasher.update(data), hasher.finalize(): the hasher is the
\* message fed to it so far
Sha256New == <<>>

Sha256Update(hasher, data) == hasher \o data

Sha256Finalize(hasher) == Sha256(hasher)

---------------------------------------------------------------------------
(* hex::encode and base64's general_purpose::STANDARD.encode *)

HexChars ==
  <<"0", "1", "2", "3", "4", "5", "6", "7", "8", "9", "a", "b", "c", "d", "e", "f">>

RECURSIVE hex_encode(_)
hex_encode(data) ==
  IF Len(data) = 0 THEN ""
  ELSE HexChars[(data[1] \div 16) + 1] \o HexChars[(data[1] % 16) + 1]
       \o hex_encode(Tail(data))

Base64Chars ==
  <<"A", "B", "C", "D", "E", "F", "G", "H", "I", "J", "K", "L", "M",
    "N", "O", "P", "Q", "R", "S", "T", "U", "V", "W", "X", "Y", "Z",
    "a", "b", "c", "d", "e", "f", "g", "h", "i", "j", "k", "l", "m",
    "n", "o", "p", "q", "r", "s", "t", "u", "v", "w", "x", "y", "z",
    "0", "1", "2", "3", "4", "5", "6", "7", "8", "9", "+", "/">>

\* three bytes to four characters, a last group of one or two bytes padded with "="
RECURSIVE base64_encode(_)
base64_encode(data) ==
  IF Len(data) = 0 THEN ""
  ELSE LET n == Len(data)
           b1 == data[1]
           b2 == IF n >= 2 THEN data[2] ELSE 0
           b3 == IF n >= 3 THEN data[3] ELSE 0
           c1 == Base64Chars[(b1 \div 4) + 1]
           c2 == Base64Chars[((b1 % 4) * 16) + (b2 \div 16) + 1]
           c3 == IF n >= 2 THEN Base64Chars[((b2 % 16) * 4) + (b3 \div 64) + 1] ELSE "="
           c4 == IF n >= 3 THEN Base64Chars[(b3 % 64) + 1] ELSE "="
       IN c1 \o c2 \o c3 \o c4
          \o (IF n > 3 THEN base64_encode(SubSeq(data, 4, n)) ELSE "")

---------------------------------------------------------------------------
(* The functions of main.rs *)

\* what the platform call of try_get_tdinfo can answer: with the feature
\* "tdx-guest", a descriptor or an error; without it there is no call
OtherBitList == <<63, 1, 32>>

OtherBits == {OtherBitList[i] : i \in 1..MaxOtherBits}

FlagWords == {lowbit \cup other : lowbit \in SUBSET {0}, other \in SUBSET OtherBits}

TdcallAnswers ==
  {[ok |-> TRUE, info |-> TdInfo(f, a)] : f \in FlagWords, a \in FlagWords}
    \cup {[ok |-> FALSE, info |-> NoTdInfo]}

try_get_tdinfo(feature, answer) ==
  IF feature
    THEN IF answer.ok
           THEN Ok(TdInfo(answer.info.tdx_features0, answer.info.tdx_attributes), <<>>)
           ELSE Err("Failed to get TDX info")
    ELSE Err("TDX guest library not available (feature not enabled)")

get_tdx_info(feature, answer) ==
  LET r == try_get_tdinfo(feature, answer)
  IN IF r.ok THEN Ok(r.val, <<>>)
     ELSE Err("TDX not available in current environment")

\* check_root_privileges with the comparison the wrong way round
check_root_privileges_inverted(plat, uid) ==
  IF plat = "unix"
    THEN IF uid = 0
           THEN Err("This program must be run as root to access TDX features")
           ELSE Ok(<<>>, <<>>)
    ELSE OkWarn(<<>>, <<"Warning: Root privilege check not available on this platform">>)

check_root_privileges(plat, uid) ==
  IF plat = "unix"
    THEN IF uid # 0
           THEN Err("This program must be run as root to access TDX features")
           ELSE Ok(<<>>, <<>>)
    ELSE OkWarn(<<>>, <<"Warning: Root privilege check not available on this platform">>)

\* check_tdx_features testing the whole word instead of the SEALING bit
check_tdx_features_any_bit(info) ==
  IF ~(info.tdx_features0 # ZeroWord)
    THEN Err("TDX sealing is not available (TDX_FEATURES0.SEALING = 0)")
    ELSE Ok(<<>>, <<"TDX_FEATURES0.SEALING = 1 (sealing available)">>)

check_tdx_features(info) ==
  IF ~(BitAnd(info.tdx_features0, TDX_FEATURES0_SEALING_BIT) # ZeroWord)
    THEN Err("TDX sealing is not available (TDX_FEATURES0.SEALING = 0)")
    ELSE Ok(<<>>, <<"TDX_FEATURES0.SEALING = 1 (sealing available)">>)

check_tdx_attributes(info) ==
  IF BitAnd(info.tdx_attributes, TDX_ATTRIBUTES_MIGRATABLE_BIT) # ZeroWord
    THEN Err("TDX sealing is not available (ATTRIBUTES.MIGRATABLE = 1)")
    ELSE Ok(<<>>, <<"ATTRIBUTES.MIGRATABLE = 0 (sealing available)">>)

\* a.wrapping_add(b) on u8
wrapping_add(a, b) == (a + b) % 256

\* get_tdx_measurement_report counting the bytes from 1
get_tdx_measurement_report_from_one ==
  Ok([i \in 1..KEY_LEN |-> wrapping_add(i % 256, MEASUREMENT_ADD)],
     <<"Successfully obtained TDX measurement report (simulated)">>)

get_tdx_measurement_report ==
  Ok([i \in 1..KEY_LEN |-> wrapping_add((i - 1) % 256, MEASUREMENT_ADD)],
     <<"Successfully obtained TDX measurement report (simulated)">>)

\* get_sealing_key with a saturating addition
get_sealing_key_saturating(mr) ==
  Ok([i \in 1..KEY_LEN |-> IF mr[i] + SEALING_ADD > 255 THEN 255 ELSE mr[i] + SEALING_ADD],
     <<"Successfully derived sealing key (simulated)">>)

get_sealing_key(mr) ==
  Ok([i \in 1..KEY_LEN |-> wrapping_add(mr[i], SEALING_ADD)],
     <<"Successfully derived sealing key (simulated)">>)

\* derive_private_key feeding the hasher the key before the domain separator
derive_private_key_key_first(key) ==
  LET hasher == Sha256Update(Sha256Update(Sha256New, key), DOMAIN_SEPARATOR)
  IN Strict(Sha256Finalize(hasher),
            LAMBDA result :
              Ok([i \in 1..KEY_LEN |-> result[i]],
                 <<"Successfully derived deterministic private key">>))

derive_private_key(key) ==
  LET hasher == Sha256Update(Sha256Update(Sha256New, DOMAIN_SEPARATOR), key)
  IN Strict(Sha256Finalize(hasher),
            LAMBDA result :
              Ok([i \in 1..KEY_LEN |-> result[i]],
                 <<"Successfully derived deterministic private key">>))

\* print_hex with base64 as the fallback
print_hex_base64_fallback(label, data, fmt) ==
  CASE fmt = "hex" -> label \o ": " \o hex_encode(data)
    [] fmt = "base64" -> label \o ": " \o base64_encode(data)
    [] OTHER -> label \o ": " \o base64_encode(data)

\* the line print_hex writes
print_hex(label, data, fmt) ==
  CASE fmt = "hex" -> label \o ": " \o hex_encode(data)
    [] fmt = "base64" -> label \o ": " \o base64_encode(data)
    [] OTHER -> label \o ": " \o hex_encode(data)

secure_zero_memory(data) == [i \in 1..Len(data) |-> 0]

---------------------------------------------------------------------------
(* main *)

Formats == {"hex", "base64", "json"}

Euids == {0, 1000}

Init ==
  /\ verbose \in BOOLEAN
  /\ format \in Formats
  /\ platform \in {"unix", "other"}
  /\ euid \in Euids
  /\ tdx_guest \in BOOLEAN
  /\ pc = "start"
  /\ td_info = NoTdInfo
  /\ probe = "none"
  /\ mrenclave = <<>>
  /\ sealing_key = <<>>
  /\ private_key = <<>>
  /\ mrenclave_mut = <<>>
  /\ sealing_key_mut = <<>>
  /\ private_key_mut = <<>>
  /\ stdout = <<>>
  /\ stderr = <<>>
  /\ exit_code = -1
  /\ trace = <<>>
  /\ call = <<>>

args == <<verbose, format, platform, euid, tdx_guest>>

buffers ==
  <<mrenclave, sealing_key, private_key, mrenclave_mut, sealing_key_mut, private_key_mut>>

\* Fail exiting with status 2
Fail_status_2(msg) ==
  /\ stderr' = Append(stderr, msg)
  /\ exit_code' = 2
  /\ pc' = "exit"

\* eprintln!("Error: ...", e); process::exit(1)
Fail(msg) ==
  /\ stderr' = Append(stderr, msg)
  /\ exit_code' = 1
  /\ pc' = "exit"

\* lines 202-207: the arguments are parsed; the banner, if verbose
Banner ==
  /\ pc = "start"
  /\ stdout' = stdout \o
       (IF verbose
          THEN <<"Intel TDX Sealing - Deterministic Private Key Derivation (Rust)",
                 "===============================================================", "">>
          ELSE <<>>)
  /\ pc' = "check_root"
  /\ UNCHANGED <<args, td_info, probe, buffers, stderr, exit_code, trace, call>>

\* lines 209-213
CheckRoot ==
  /\ pc = "check_root"
  /\ \E r \in {check_root_privileges(platform, euid)} :
        IF ~r.ok
          THEN Fail("Error: " \o r.err)
          ELSE /\ stderr' = stderr \o r.eout
               /\ pc' = "get_info"
               /\ UNCHANGED exit_code
  /\ trace' = Append(trace, "privilege")
  /\ UNCHANGED <<args, td_info, probe, buffers, stdout, call>>

\* a synthetic descriptor with the MIGRATABLE bit set
MockTdInfo_migratable == TdInfo(TDX_FEATURES0_SEALING_BIT, TDX_ATTRIBUTES_MIGRATABLE_BIT)

\* lines 233-236: the descriptor main makes up when the probe failed
MockTdInfo == TdInfo(TDX_FEATURES0_SEALING_BIT, ZeroWord)

\* lines 215-238
GetInfo ==
  /\ pc = "get_info"
  /\ \E answer \in TdcallAnswers :
       LET r == get_tdx_info(tdx_guest, answer)
       IN IF r.ok
            THEN /\ stdout' = stdout \o
                      (IF verbose
                         THEN <<"Successfully retrieved TDX information using tdx-guest library">>
                         ELSE <<>>)
                 /\ td_info' = r.val
                 /\ probe' = "ok"
                 /\ UNCHANGED stderr
            ELSE /\ stderr' = stderr \o
                      <<"Error: Failed to retrieve TDX information: " \o r.err,
                        "Note: This may be expected if not running in a TDX environment">>
                 /\ stdout' = stdout \o
                      (IF verbose
                         THEN <<"Creating mock TDX info for demonstration...">>
                         ELSE <<>>)
                 /\ td_info' = MockTdInfo
                 /\ probe' = "err"
  /\ pc' = "check_features"
  /\ trace' = Append(trace, "probe")
  /\ UNCHANGED <<args, buffers, exit_code, call>>

\* lines 240-244
CheckFeatures ==
  /\ pc = "check_features"
  /\ \E r \in {check_tdx_features(td_info)} :
        IF ~r.ok
          THEN Fail("Error: " \o r.err) /\ UNCHANGED stdout
          ELSE /\ stdout' = stdout \o r.out
               /\ pc' = "check_attributes"
               /\ UNCHANGED <<stderr, exit_code>>
  /\ trace' = Append(trace, "features")
  /\ UNCHANGED <<args, td_info, probe, buffers, call>>

\* CheckAttributes without the process::exit(1)
CheckAttributes_no_exit ==
  /\ pc = "check_attributes"
  /\ \E r \in {check_tdx_attributes(td_info)} :
        /\ stdout' = stdout \o r.out
        /\ stderr' = IF r.ok THEN stderr ELSE Append(stderr, "Error: " \o r.err)
        /\ pc' = "get_measurement"
        /\ UNCHANGED exit_code
  /\ trace' = Append(trace, "attributes")
  /\ UNCHANGED <<args, td_info, probe, buffers, call>>

\* lines 246-249
CheckAttributes ==
  /\ pc = "check_attributes"
  /\ \E r \in {check_tdx_attributes(td_info)} :
        IF ~r.ok
          THEN Fail("Error: " \o r.err) /\ UNCHANGED stdout
          ELSE /\ stdout' = stdout \o r.out
               /\ pc' = "get_measurement"
               /\ UNCHANGED <<stderr, exit_code>>
  /\ trace' = Append(trace, "attributes")
  /\ UNCHANGED <<args, td_info, probe, buffers, call>>

\* lines 251-258
GetMeasurement ==
  /\ pc = "get_measurement"
  /\ \E r \in {get_tdx_measurement_report} :
        IF ~r.ok
          THEN /\ Fail("Error: Failed to get TDX measurement report: " \o r.err)
               /\ UNCHANGED <<stdout, mrenclave>>
          ELSE /\ stdout' = stdout \o r.out
               /\ mrenclave' = r.val
               /\ pc' = "print_mrenclave"
               /\ UNCHANGED <<stderr, exit_code>>
  /\ trace' = Append(trace, "measurement")
  /\ UNCHANGED <<args, td_info, probe, sealing_key, private_key, mrenclave_mut,
                 sealing_key_mut, private_key_mut, call>>

\* lines 260-261
PrintMrenclave ==
  /\ pc = "print_mrenclave"
  /\ stdout' = Append(stdout, print_hex("MRENCLAVE", mrenclave, format))
  /\ pc' = "get_sealing_key"
  /\ trace' = Append(trace, "print_mrenclave")
  /\ UNCHANGED <<args, td_info, probe, buffers, stderr, exit_code, call>>

\* lines 263-270
GetSealingKey ==
  /\ pc = "get_sealing_key"
  /\ \E r \in {get_sealing_key(mrenclave)} :
        IF ~r.ok
          THEN /\ Fail("Error: Failed to get sealing key: " \o r.err)
               /\ UNCHANGED <<stdout, sealing_key>>
          ELSE /\ stdout' = stdout \o r.out
               /\ sealing_key' = r.val
               /\ pc' = "print_sealing_key"
               /\ UNCHANGED <<stderr, exit_code>>
  /\ trace' = Append(trace, "sealing_key")
  /\ UNCHANGED <<args, td_info, probe, mrenclave, private_key, mrenclave_mut,
                 sealing_key_mut, private_key_mut, call>>

\* lines 272-273
PrintSealingKey ==
  /\ pc = "print_sealing_key"
  /\ stdout' = Append(stdout, print_hex("Sealing Key", sealing_key, format))
  /\ pc' = "derive_private_key"
  /\ trace' = Append(trace, "print_sealing_key")
  /\ UNCHANGED <<args, td_info, probe, buffers, stderr, exit_code, call>>

\* lines 275-282
DerivePrivateKey ==
  /\ pc = "derive_private_key"
  /\ \E r \in {derive_private_key(sealing_key)} :
        IF ~r.ok
          THEN /\ Fail("Error: Failed to derive private key: " \o r.err)
               /\ UNCHANGED <<stdout, private_key>>
          ELSE /\ stdout' = stdout \o r.out
               /\ private_key' = r.val
               /\ pc' = "print_private_key"
               /\ UNCHANGED <<stderr, exit_code>>
  /\ trace' = Append(trace, "private_key")
  /\ UNCHANGED <<args, td_info, probe, mrenclave, sealing_key, mrenclave_mut,
                 sealing_key_mut, private_key_mut, call>>

\* lines 284-287
PrintPrivateKey ==
  /\ pc = "print_private_key"
  /\ stdout' = stdout \o
       <<print_hex("Derived Private Key", private_key, format), "",
         "Successfully derived deterministic private key using TDX sealing!">>
  /\ pc' = "copy"
  /\ trace' = Append(trace, "print_private_key")
  /\ UNCHANGED <<args, td_info, probe, buffers, stderr, exit_code, call>>

\* lines 289-292: a [u8; 32] is Copy, so each let binds a copy and the buffer
\* it is copied from stays as it is
CopyBuffers ==
  /\ pc = "copy"
  /\ mrenclave_mut' = mrenclave
  /\ sealing_key_mut' = sealing_key
  /\ private_key_mut' = private_key
  /\ pc' = "zero"
  /\ UNCHANGED <<args, td_info, probe, mrenclave, sealing_key, private_key, stdout,
                 stderr, exit_code, trace, call>>

\* lines 294-296
ZeroBuffers ==
  /\ pc = "zero"
  /\ mrenclave_mut' = secure_zero_memory(mrenclave_mut)
  /\ sealing_key_mut' = secure_zero_memory(sealing_key_mut)
  /\ private_key_mut' = secure_zero_memory(private_key_mut)
  /\ pc' = "finish"
  /\ trace' = Append(trace, "zeroing")
  /\ UNCHANGED <<args, td_info, probe, mrenclave, sealing_key, private_key, stdout,
                 stderr, exit_code, call>>

\* lines 298-301: main returns, the process ends with status 0
Finish ==
  /\ pc = "finish"
  /\ stdout' = stdout \o
       (IF verbose THEN <<"Sensitive data securely cleared from memory">> ELSE <<>>)
  /\ exit_code' = 0
  /\ pc' = "exit"
  /\ UNCHANGED <<args, td_info, probe, buffers, stderr, trace, call>>

Next ==
  \/ Banner
  \/ CheckRoot
  \/ GetInfo
  \/ CheckFeatures
  \/ CheckAttributes
  \/ GetMeasurement
  \/ PrintMrenclave
  \/ GetSealingKey
  \/ PrintSealingKey
  \/ DerivePrivateKey
  \/ PrintPrivateKey
  \/ CopyBuffers
  \/ ZeroBuffers
  \/ Finish

Spec == Init /\ [][Next]_vars

\* main is one thread and no step of it waits: it runs until the process exits
FairSpec == Spec /\ WF_vars(Next)

---------------------------------------------------------------------------
(* The functions applied to inputs of their own: get_sealing_key to a        *)
(* measurement, derive_private_key to its result, print_hex to a label, a   *)
(* buffer and a format                                                      *)

BaseList == <<0, 51, 171, 255, 50, 128>>

StepList == <<0, 1, 7, 255>>

FnInputs ==
  {[i \in 1..KEY_LEN |-> (BaseList[b] + StepList[s] * (i - 1)) % 256] :
     b \in 1..NumBases, s \in 1..NumSteps}

FnLabels == {"MRENCLAVE", "Sealing Key", "Derived Private Key"}

FnFormats == {"hex", "base64", "json", "HEX", ""}

FnLens == (0..MaxShortLen) \cup {KEY_LEN}

FnInit ==
  /\ verbose = FALSE
  /\ format = "hex"
  /\ platform = "unix"
  /\ euid = 0
  /\ tdx_guest = FALSE
  /\ pc = "fn_start"
  /\ td_info = NoTdInfo
  /\ probe = "none"
  /\ mrenclave \in FnInputs
  /\ sealing_key = <<>>
  /\ private_key = <<>>
  /\ mrenclave_mut = <<>>
  /\ sealing_key_mut = <<>>
  /\ private_key_mut = <<>>
  /\ stdout = <<>>
  /\ stderr = <<>>
  /\ exit_code = -1
  /\ trace = <<>>
  /\ call = <<>>

FnGetSealingKey ==
  /\ pc = "fn_start"
  /\ \E r \in {get_sealing_key(mrenclave)} :
        /\ sealing_key' = r.val
        /\ stdout' = stdout \o r.out
        /\ pc' = IF r.ok THEN "fn_sealed" ELSE "fn_failed"
  /\ UNCHANGED <<args, td_info, probe, mrenclave, private_key, mrenclave_mut,
                 sealing_key_mut, private_key_mut, stderr, exit_code, trace, call>>

FnDerivePrivateKey ==
  /\ pc = "fn_sealed"
  /\ \E r \in {derive_private_key(sealing_key)} :
        /\ private_key' = r.val
        /\ stdout' = stdout \o r.out
        /\ pc' = IF r.ok THEN "fn_derived" ELSE "fn_failed"
  /\ UNCHANGED <<args, td_info, probe, mrenclave, sealing_key, mrenclave_mut,
                 sealing_key_mut, private_key_mut, stderr, exit_code, trace, call>>

FnPrintHex ==
  /\ pc = "fn_derived"
  /\ \E label \in FnLabels, buf \in {mrenclave, sealing_key, private_key},
        n \in FnLens, fmt \in FnFormats :
       LET data == SubSeq(buf, 1, n)
       IN /\ stdout' = Append(stdout, print_hex(label, data, fmt))
          /\ call' = <<label, data, fmt>>
  /\ pc' = "fn_printed"
  /\ UNCHANGED <<args, td_info, probe, buffers, stderr, exit_code, trace>>

FnNext ==
  \/ FnGetSealingKey
  \/ FnDerivePrivateKey
  \/ FnPrintHex

FnSpec == FnInit /\ [][FnNext]_vars

---------------------------------------------------------------------------
(* Properties *)

Range(q) == {q[i] : i \in 1..Len(q)}

IsPrefix(p, q) == Len(p) <= Len(q) /\ \A i \in 1..Len(p) : p[i] = q[i]

Last(q) == q[Len(q)]

Bit0(word) == 0 \in word

Zeroed == [i \in 1..KEY_LEN |-> 0]

\* the stages of a run, in the order of main
StageOrder ==
  <<"privilege", "probe", "features", "attributes", "measurement", "print_mrenclave",
    "sealing_key", "print_sealing_key", "private_key", "print_private_key", "zeroing">>

PrintStages == {"print_mrenclave", "print_sealing_key", "print_private_key"}

\* every line of standard output that is not one of the three values
ProgressLines ==
  {"Intel TDX Sealing - Deterministic Private Key Derivation (Rust)",
   "===============================================================", "",
   "Successfully retrieved TDX information using tdx-guest library",
   "Creating mock TDX info for demonstration...",
   "TDX_FEATURES0.SEALING = 1 (sealing available)",
   "ATTRIBUTES.MIGRATABLE = 0 (sealing available)",
   "Successfully obtained TDX measurement report (simulated)",
   "Successfully derived sealing key (simulated)",
   "Successfully derived deterministic private key",
   "Successfully derived deterministic private key using TDX sealing!",
   "Sensitive data securely cleared from memory"}

IsValueLine(line) == line \notin ProgressLines

\* the lines of standard output that carry key material
ValueLines == SelectSeq(stdout, IsValueLine)

\* the error lines after which main exits
FatalLines ==
  {"Error: This program must be run as root to access TDX features",
   "Error: TDX sealing is not available (TDX_FEATURES0.SEALING = 0)",
   "Error: TDX sealing is not available (ATTRIBUTES.MIGRATABLE = 1)",
   "Error: Failed to get TDX measurement report: ",
   "Error: Failed to get sealing key: ",
   "Error: Failed to derive private key: "}

Exited(code) == pc = "exit" /\ exit_code = code

\* byte i (from 0) is (i + 0xAB) mod 256
ExpectedMeasurement == [i \in 1..32 |-> ((i - 1) + 171) % 256]

\* byte i (from 0) is (i + 0x78) mod 256
ExpectedSealingKey == [i \in 1..32 |-> ((i - 1) + 120) % 256]

\* SHA-256("TDX_SEALING_PRIVATE_KEY_DERIVATION" || ExpectedSealingKey) =
\* 1cca36f6b2936ad8cd576eff4823df7a7b66139aae33d559c48517bcb4ae63de
ExpectedPrivateKey ==
  << 28, 202, 54, 246, 178, 147, 106, 216,
     205, 87, 110, 255, 72, 35, 223, 122,
     123, 102, 19, 154, 174, 51, 213, 89,
     196, 133, 23, 188, 180, 174, 99, 222 >>

\* the same digest, computed
ComputedPrivateKey == Sha256(DOMAIN_SEPARATOR \o ExpectedSealingKey)

\* what a run prints of the three values, for a format
ExpectedValueLines(fmt) ==
  <<print_hex("MRENCLAVE", ExpectedMeasurement, fmt),
    print_hex("Sealing Key", ExpectedSealingKey, fmt),
    print_hex("Derived Private Key", ExpectedPrivateKey, fmt)>>

\* C1: once the capability check of main is over (check_tdx_features has
\* failed, or check_tdx_attributes has been called), the run goes on exactly
\* when bit 0 of tdx_features0 is 1 and bit 0 of tdx_attributes is 0; no other
\* bit of either word matters.
C1_CapabilityCheck ==
  LET concluded ==
        \/ "attributes" \in Range(trace)
        \/ "features" \in Range(trace) /\ pc = "exit"
      continues == ~Exited(1)
  IN /\ concluded =>
          (continues <=> (Bit0(td_info.tdx_features0) /\ ~Bit0(td_info.tdx_attributes)))
     /\ ("features" \in Range(trace) /\ ~Bit0(td_info.tdx_features0)) => Exited(1)

C1_Witness ==
  /\ probe = "ok"
  /\ pc = "get_measurement"
  /\ td_info.tdx_features0 = {0, 63}
  /\ td_info.tdx_attributes = {63}

\* C2: on Unix with geteuid() # 0 the run ends with exit code 1, nothing but
\* the banner is ever on standard output, no buffer is produced, and neither
\* the capability probe nor any later stage is executed.
C2_Unprivileged ==
  (platform = "unix" /\ euid # 0) =>
    /\ pc \in {"start", "check_root", "exit"}
    /\ pc = "exit" => exit_code = 1
    /\ ValueLines = <<>>
    /\ buffers = <<<<>>, <<>>, <<>>, <<>>, <<>>, <<>>>>
    /\ probe = "none" /\ td_info = NoTdInfo
    /\ Range(trace) \subseteq {"privilege"}

C2_Witness ==
  /\ platform = "unix" /\ euid # 0
  /\ Exited(1)
  /\ trace = <<"privilege">>

C4_ProbeFailureRecovered ==
  /\ [](probe = "err" =>
          /\ td_info = TdInfo({0}, {})
          /\ check_tdx_features(td_info).ok
          /\ check_tdx_attributes(td_info).ok
          /\ exit_code # 1
          /\ Range(stderr) \cap FatalLines = {})
  /\ []((Range(stderr) \cap FatalLines # {}) => Exited(1))
  /\ []((pc = "exit" /\ probe = "ok" /\ ~check_tdx_features(td_info).ok) => exit_code = 1)
  /\ (probe = "err") ~> Exited(0)

C4_Witness ==
  /\ probe = "err"
  /\ tdx_guest
  /\ Exited(0)
  /\ Len(private_key) = KEY_LEN

\* C5: on a run that reaches the end of main, every buffer that held the
\* measurement, the sealing key or the private key is all zero.
C5_AllBuffersZeroed ==
  Exited(0) =>
    /\ mrenclave = Zeroed /\ sealing_key = Zeroed /\ private_key = Zeroed
    /\ mrenclave_mut = Zeroed /\ sealing_key_mut = Zeroed /\ private_key_mut = Zeroed

\* C6: get_sealing_key succeeds on every measurement, with 32 bytes where
\* byte i is (measurement[i] + 0xCD) mod 256, and leaves the measurement as
\* it was.
C6_SealingKeyBytes ==
  [][pc = "fn_start" =>
       /\ pc' = "fn_sealed"
       /\ Len(sealing_key') = 32
       /\ \A i \in 1..32 :
            /\ sealing_key'[i] = (mrenclave[i] + 205) % 256
            /\ sealing_key'[i] \in 0..255
       /\ mrenclave' = mrenclave]_vars

C6_Witness ==
  /\ pc = "fn_sealed"
  /\ \E i \in 1..32 : mrenclave[i] + 205 >= 256 /\ sealing_key[i] = mrenclave[i] - 51
  /\ \E i \in 1..32 : mrenclave[i] + 205 < 256 /\ sealing_key[i] = mrenclave[i] + 205

\* C7: in every run the measurement, once obtained, has byte i = (i + 0xAB)
\* mod 256 and the sealing key byte i = (i + 0xAB + 0xCD) mod 256 = (i + 0x78)
\* mod 256; both stages always succeed, so main never exits at them.
C7_EndToEndBytes ==
  /\ "measurement" \in Range(trace) =>
       /\ Len(mrenclave) = 32
       /\ \A i \in 0..31 : mrenclave[i + 1] = (i + 171) % 256
  /\ "sealing_key" \in Range(trace) =>
       /\ Len(sealing_key) = 32
       /\ \A i \in 0..31 :
            /\ sealing_key[i + 1] = (i + 171 + 205) % 256
            /\ sealing_key[i + 1] = (i + 120) % 256
  /\ Exited(1) => Last(trace) \notin {"measurement", "sealing_key"}
  /\ \A k \in 1..Len(stderr) :
       stderr[k] \notin {"Error: Failed to get TDX measurement report: ",
                         "Error: Failed to get sealing key: "}

C7_Witness ==
  /\ pc = "print_sealing_key"
  /\ sealing_key[1] = 120
  /\ sealing_key[32] = 151

\* C8: print_hex with a format that is neither "hex" nor "base64" writes the
\* line that the format "hex" gives, for every label and buffer; only
\* "base64" gives the base64 line.
C8_UnknownFormatIsHex ==
  pc = "fn_printed" =>
    LET label == call[1]
        data == call[2]
        fmt == call[3]
        hexline == label \o ": " \o hex_encode(data)
    IN /\ fmt \notin {"hex", "base64"} =>
            /\ Last(stdout) = print_hex(label, data, "hex")
            /\ Last(stdout) = hexline
       /\ fmt = "hex" => Last(stdout) = hexline
       /\ fmt = "base64" =>
            /\ Last(stdout) = label \o ": " \o base64_encode(data)
            /\ Len(data) > 0 => Last(stdout) # hexline

C8_Witness ==
  /\ pc = "fn_printed"
  /\ call[3] = "json"
  /\ Len(call[2]) = 32
  /\ Last(stdout) = print_hex(call[1], call[2], "hex")

\* C9: the values a run prints are the same in every run: whatever the
\* verbose flag is and wherever the capability descriptor came from, the
\* value lines are those of the fixed measurement, the fixed sealing key and
\* SHA-256(domain separator || sealing key), in the run's format.
C9_SameValuesEveryRun ==
  /\ Len(private_key) # 0 =>
       /\ private_key = ExpectedPrivateKey
       /\ private_key = ComputedPrivateKey
  /\ "print_mrenclave" \in Range(trace) => IsPrefix(ValueLines, ExpectedValueLines(format))
  /\ "print_private_key" \in Range(trace) => ValueLines = ExpectedValueLines(format)

C9_Witness ==
  /\ verbose
  /\ probe = "ok"
  /\ td_info.tdx_features0 = {0, 63}
  /\ Exited(0)
  /\ ValueLines = ExpectedValueLines(format)

\* C10: the stages run in the order of main, each at most once; a value is
\* printed only after the privilege check and both capability checks passed;
\* the values are printed in the order measurement, sealing key, private key,
\* once each on a successful run; zeroing comes after the three prints; and a
\* run that exits with code 1 has produced no buffer.
C10_StageOrder ==
  LET printed == {k \in 1..Len(trace) : trace[k] \in PrintStages}
  IN /\ IsPrefix(trace, StageOrder)
     /\ Len(ValueLines) = Cardinality(printed)
     /\ IsPrefix(ValueLines,
                 <<print_hex("MRENCLAVE", mrenclave, format),
                   print_hex("Sealing Key", sealing_key, format),
                   print_hex("Derived Private Key", private_key, format)>>)
     /\ Len(ValueLines) > 0 =>
          /\ check_root_privileges(platform, euid).ok
          /\ check_tdx_features(td_info).ok
          /\ check_tdx_attributes(td_info).ok
          /\ IsPrefix(<<"privilege", "probe", "features", "attributes">>, trace)
     /\ Exited(0) => Len(ValueLines) = 3
     /\ ("zeroing" \in Range(trace) \/ mrenclave_mut = Zeroed) => Len(ValueLines) = 3
     /\ Exited(1) => buffers = <<<<>>, <<>>, <<>>, <<>>, <<>>, <<>>>>

C10_Witness ==
  /\ Exited(0)
  /\ trace = StageOrder
  /\ mrenclave_mut = Zeroed

====
